---- MODULE Spec2Model ----
(***************************************************************************)
(* LDC - Local Data Cache (src/src/lib.rs).                                *)
(*                                                                         *)
(* Two typed caches, CacheFile<T> (bincode) and CacheConfig<T> (JSON),     *)
(* each owning a FileHandler on one path of the file system.  The model    *)
(* takes T = i32, keeps the file as a sequence of bytes (0..255) and the   *)
(* codecs as byte-level conversions, and lets the environment delete or    *)
(* overwrite the file and make I/O calls fail.  Spec is the two caches;    *)
(* SpecFH is the FileHandler used directly, with the operations the caches *)
(* never call (append, copy_to, move_to, metadata).                        *)
(***************************************************************************)
EXTENDS Integers, Sequences, FiniteSets, TLC

VARIABLES
    fs,        \* the backing file: [exists, bytes]
    dest,      \* the file at the destination path of copy_to / move_to
    kind,      \* kind[i]: "bin" (CacheFile<i32>) or "json" (CacheConfig<i32>)
    data,      \* data[i]: the in-memory value (data_type / config)
    content,   \* content[i]: FileHandler.content, Option<Vec<u8>> as [some, bytes]
    calls,     \* the number of calls made so far
    ev         \* the last call made: [op, i, res, arg, ret, pre]

vars == <<fs, dest, kind, data, content, calls, ev>>

(* ------------------------------------------------------------------ *)
(* Bounds of the model                                                 *)
(* ------------------------------------------------------------------ *)

\* the calls (of the caches and of the environment) in one run
MaxCalls == 4

\* the cache instances wrapping the path
Insts == {1, 2}

\* values the caller stores through get_mut_data() / get_mut_config()
MutValues == {3, -5}

\* values the caller passes to append()
AppendValues == {5, -5}

\* contents another process may leave in the file
ExternalBytes ==
    { <<>>,                  \* empty file
      <<55, 10>>,            \* "7\n": JSON 7, too short for a bincode i32
      <<1, 0, 0, 128, 9>> }  \* bincode i32 with a trailing byte, not JSON

(* ------------------------------------------------------------------ *)
(* Constants of the program; i32, Display and FromStr                  *)
(* ------------------------------------------------------------------ *)

\* the capacity of the buffer of BufWriter::new; a write_all of fewer bytes
\* only fills the buffer
DEFAULT_BUF_SIZE == 8192

I32_MAX == 2147483647
I32_MIN == (-2147483647) - 1

\* <i32 as Default>::default()
Default == 0

Minus == 45
Plus == 43
Zero == 48
IsDigit(c) == c >= 48 /\ c <= 57

RECURSIVE NatDigits(_)
NatDigits(n) ==
    IF n < 10 THEN <<Zero + n>>
    ELSE Append(NatDigits(n \div 10), Zero + (n % 10))

\* <i32 as Display>::to_string, as ASCII codes
to_string(v) ==
    IF v >= 0 THEN NatDigits(v)
    ELSE LET d == (10 - (v % 10)) % 10
             q == -((v + d) \div 10)
         IN  <<Minus>> \o (IF q = 0 THEN <<>> ELSE NatDigits(q)) \o <<Zero + d>>

Ok(v) == [ok |-> TRUE, v |-> v, err |-> "none"]
Err(e) == [ok |-> FALSE, v |-> 0, err |-> e]

\* checked accumulation of decimal digits, as from_str_radix does it:
\* checked_mul(10) then checked_add / checked_sub of the digit
RECURSIVE ParseDigits(_, _, _, _)
ParseDigits(s, idx, acc, neg) ==
    IF idx > Len(s) THEN Ok(acc)
    ELSE IF ~IsDigit(s[idx]) THEN Err("Parse")
    ELSE LET d == s[idx] - Zero IN
         IF neg
         THEN IF acc < -(I32_MAX \div 10) THEN Err("Parse")
              ELSE IF acc * 10 < I32_MIN + d THEN Err("Parse")
              ELSE ParseDigits(s, idx + 1, acc * 10 - d, neg)
         ELSE IF acc > I32_MAX \div 10 THEN Err("Parse")
              ELSE IF acc * 10 > I32_MAX - d THEN Err("Parse")
              ELSE ParseDigits(s, idx + 1, acc * 10 + d, neg)

\* <i32 as FromStr>::from_str
parse(s) ==
    IF Len(s) = 0 THEN Err("Parse")
    ELSE IF s[1] \in {Plus, Minus}
    THEN IF Len(s) = 1 THEN Err("Parse")
         ELSE ParseDigits(s, 2, 0, s[1] = Minus)
    ELSE ParseDigits(s, 1, 0, FALSE)

(* ------------------------------------------------------------------ *)
(* The codecs                                                          *)
(* ------------------------------------------------------------------ *)

\* bincode::serialize::<i32>: four bytes, little endian, two's complement
bincode_serialize(v) ==
    LET w == IF v >= 0 THEN v ELSE (v + I32_MAX) + 1
    IN  Ok(<< w % 256,
              (w \div 256) % 256,
              (w \div 65536) % 256,
              (w \div 16777216) + (IF v < 0 THEN 128 ELSE 0) >>)

\* bincode::deserialize::<i32>: the first four bytes; trailing bytes are
\* allowed, fewer than four is an error
bincode_deserialize(bytes) ==
    IF Len(bytes) < 4 THEN Err("Decode")
    ELSE LET low == bytes[1] + bytes[2] * 256 + bytes[3] * 65536
                    + (bytes[4] % 128) * 16777216
         IN  IF bytes[4] >= 128 THEN Ok((low - I32_MAX) - 1) ELSE Ok(low)

\* serde_json::to_string::<i32>: the decimal text
json_to_string(v) == Ok(to_string(v))

IsJsonSpace(c) == c \in {32, 10, 13, 9}

RECURSIVE SkipSpace(_, _)
SkipSpace(s, idx) ==
    IF idx <= Len(s) /\ IsJsonSpace(s[idx]) THEN SkipSpace(s, idx + 1) ELSE idx

RECURSIVE DigitsEnd(_, _)
DigitsEnd(s, idx) ==
    IF idx <= Len(s) /\ IsDigit(s[idx]) THEN DigitsEnd(s, idx + 1) ELSE idx

\* serde_json::from_slice::<i32>: optional whitespace, "-"?, "0" or a digit
\* string without a leading zero, optional whitespace, nothing else; "-0",
\* fractions, exponents and values outside i32 are errors
json_from_slice(bytes) ==
    LET start == SkipSpace(bytes, 1)
        neg   == start <= Len(bytes) /\ bytes[start] = Minus
        first == IF neg THEN start + 1 ELSE start
        last  == DigitsEnd(bytes, first)
        rest  == SkipSpace(bytes, last)
        text  == SubSeq(bytes, first, last - 1)
        num   == ParseDigits(text, 1, 0, neg)
    IN  IF last = first THEN Err("Decode")
        ELSE IF text[1] = Zero /\ Len(text) > 1 THEN Err("Decode")
        ELSE IF rest <= Len(bytes) THEN Err("Decode")
        ELSE IF neg /\ text = <<Zero>> THEN Err("Decode")
        ELSE IF ~num.ok THEN Err("Decode")
        ELSE Ok(num.v)

\* The caches are generic in T and serialize(&T) can fail (the Err arms of
\* write).  No i32 is rejected; SpecT takes for T a wrapper of i32 whose
\* Serialize implementation returns an error for this one value.
Rejected == 13

Encode(k, v) ==
    IF v = Rejected THEN Err("Encode")
    ELSE IF k = "bin" THEN bincode_serialize(v) ELSE json_to_string(v)

\* the bytes handed to FileHandler::write, none when serialize failed
EncodedBytes(k, v) == LET e == Encode(k, v) IN IF e.ok THEN e.v ELSE <<>>
Decode(k, bytes) ==
    IF k = "bin" THEN bincode_deserialize(bytes) ELSE json_from_slice(bytes)

(* ------------------------------------------------------------------ *)
(* FileHandler                                                         *)
(* ------------------------------------------------------------------ *)

NoFile == [exists |-> FALSE, bytes |-> <<>>]
File(bytes) == [exists |-> TRUE, bytes |-> bytes]
None == [some |-> FALSE, bytes |-> <<>>]
Some(bytes) == [some |-> TRUE, bytes |-> bytes]

\* FileHandler::new: the path, and content: None
FileHandler_new == None

\* a read that forgets the content of an earlier read when it fails
FileHandler_read_forgets(f, old, fault) ==
    IF ~f.exists \/ fault
    THEN [ok |-> FALSE, bytes |-> <<>>, content |-> None]
    ELSE [ok |-> TRUE, bytes |-> f.bytes, content |-> Some(f.bytes)]

\* FileHandler::read on file f; fault: File::open or read_to_end fails for
\* a reason other than a missing file.  [ok, bytes, content]: the result
\* and the handler's content field afterwards (old is its value before).
FileHandler_read(f, old, fault) ==
    IF ~f.exists \/ fault
    THEN [ok |-> FALSE, bytes |-> <<>>, content |-> old]
    ELSE [ok |-> TRUE, bytes |-> f.bytes, content |-> Some(f.bytes)]

\* FileHandler::write of bytes on file f.  createFail: File::create fails.
\* Otherwise the file is created or truncated, write_all hands the bytes to
\* the BufWriter, and the BufWriter is dropped: the drop writes the buffer
\* out and ignores an error, so that only the first k bytes reach the file
\* (k = Len(bytes) when nothing fails).  Bytes that do not fit the buffer
\* are written by write_all itself and their error is returned.
\* [ok, file]: the result and the file afterwards.
FileHandler_write(f, bytes, createFail, k) ==
    IF createFail THEN [ok |-> FALSE, file |-> f]
    ELSE [ok   |-> k = Len(bytes) \/ Len(bytes) - k < DEFAULT_BUF_SIZE,
          file |-> File(SubSeq(bytes, 1, k))]

\* a delete that empties the file instead of removing it
FileHandler_delete_truncates(f, fault) ==
    IF ~f.exists \/ fault THEN [ok |-> FALSE, file |-> f]
    ELSE [ok |-> TRUE, file |-> File(<<>>)]

\* FileHandler::delete; fault: remove_file fails although the file exists
FileHandler_delete(f, fault) ==
    IF ~f.exists \/ fault THEN [ok |-> FALSE, file |-> f]
    ELSE [ok |-> TRUE, file |-> NoFile]

\* FileHandler::exists
FileHandler_exists(f) == f.exists

\* an append that opens the file with create(true)
FileHandler_append_creates(f, bytes, openFail, k) ==
    IF openFail THEN [ok |-> FALSE, file |-> f]
    ELSE [ok |-> k = Len(bytes), file |-> File(f.bytes \o SubSeq(bytes, 1, k))]

\* FileHandler::append of bytes on file f.  openFail: the open fails
\* although the file exists; a missing file is not created.  write_all
\* writes to the file itself: when it stops after k < Len(bytes) bytes the
\* error is returned.  [ok, file]
FileHandler_append(f, bytes, openFail, k) ==
    IF ~f.exists \/ openFail THEN [ok |-> FALSE, file |-> f]
    ELSE [ok   |-> k = Len(bytes),
          file |-> File(f.bytes \o SubSeq(bytes, 1, k))]

\* FileHandler::copy_to of file f onto destination d.  fault: fs::copy
\* fails before it opens the destination; otherwise the destination is
\* created or truncated and k bytes are copied (k = Len(f.bytes): all).
\* [ok, dest]
FileHandler_copy_to(f, d, fault, k) ==
    IF ~f.exists \/ fault THEN [ok |-> FALSE, dest |-> d]
    ELSE [ok   |-> k = Len(f.bytes),
          dest |-> File(SubSeq(f.bytes, 1, k))]

\* a move that leaves the source file in place
FileHandler_move_to_copies(f, d, fault) ==
    IF ~f.exists \/ fault THEN [ok |-> FALSE, file |-> f, dest |-> d]
    ELSE [ok |-> TRUE, file |-> f, dest |-> File(f.bytes)]

\* FileHandler::move_to of file f onto destination d: fs::rename, all or
\* nothing.  [ok, file, dest]
FileHandler_move_to(f, d, fault) ==
    IF ~f.exists \/ fault THEN [ok |-> FALSE, file |-> f, dest |-> d]
    ELSE [ok |-> TRUE, file |-> NoFile, dest |-> File(f.bytes)]

\* FileHandler::metadata: the length stands for the Metadata.  [ok, len]
FileHandler_metadata(f, fault) ==
    IF ~f.exists \/ fault THEN [ok |-> FALSE, len |-> 0]
    ELSE [ok |-> TRUE, len |-> Len(f.bytes)]

(* ------------------------------------------------------------------ *)
(* The typed caches                                                    *)
(* ------------------------------------------------------------------ *)

\* one more call, recorded in ev: the operation, the instance, the result
\* ("Ok", the kind of error, or the answer of exists), the argument of
\* append, the value a successful read returned, and the in-memory value
\* the instance held before the call
Record(op, i, res, arg, ret) ==
    /\ calls < MaxCalls
    /\ calls' = calls + 1
    /\ ev' = [op |-> op, i |-> i, res |-> res, arg |-> arg, ret |-> ret,
              pre |-> IF i \in Insts THEN data[i] ELSE Default]

\* a call that does not touch the destination path
Call(op, i, res, arg, ret) ==
    /\ Record(op, i, res, arg, ret)
    /\ UNCHANGED dest

\* the ways a write of bytes may go: File::create fails, or the flush stops
\* after n bytes (n = Len(bytes): nothing fails).  The stops taken are no
\* byte, all but the last byte, and every byte: an empty file, a proper
\* prefix, and the whole.
WriteFaults(bytes) ==
    {[createFail |-> TRUE, n |-> 0]}
        \cup {[createFail |-> FALSE, n |-> k] :
                 k \in {0, Len(bytes) - 1, Len(bytes)} \cap (0..Len(bytes))}

\* a load that marks undecodable bytes with -1 instead of the default
Load_sentinel(k, r) ==
    IF r.ok
    THEN LET d == Decode(k, r.bytes) IN IF d.ok THEN d.v ELSE -1
    ELSE Default

\* CacheFile::new / CacheConfig::new: the value loaded from read result r,
\* the default on a failed read and on bytes that do not decode
Load(k, r) ==
    IF r.ok
    THEN LET d == Decode(k, r.bytes) IN IF d.ok THEN d.v ELSE Default
    ELSE Default

\* a construction that writes the default back when it fell back to it
New_repairs(i, k, fault) ==
    LET r == FileHandler_read(fs, FileHandler_new, fault) IN
    /\ kind' = [kind EXCEPT ![i] = k]
    /\ data' = [data EXCEPT ![i] = Load(k, r)]
    /\ content' = [content EXCEPT ![i] = r.content]
    /\ Call("new", i, "Ok", 0, 0)
    /\ fs' = IF r.ok /\ Decode(k, r.bytes).ok THEN fs
             ELSE File(Encode(k, Default).v)

New(i, k, fault) ==
    LET r == FileHandler_read(fs, FileHandler_new, fault) IN
    /\ kind' = [kind EXCEPT ![i] = k]
    /\ data' = [data EXCEPT ![i] = Load(k, r)]
    /\ content' = [content EXCEPT ![i] = r.content]
    /\ Call("new", i, "Ok", 0, 0)
    /\ UNCHANGED fs

CacheFile_new(i) == \E fault \in BOOLEAN : New(i, "bin", fault)
CacheConfig_new(i) == \E fault \in BOOLEAN : New(i, "json", fault)

\* an assignment that writes through to the file
SetValue_persists(i, v) ==
    /\ data' = [data EXCEPT ![i] = v]
    /\ fs' = File(Encode(kind[i], v).v)
    /\ Call("set", i, "Ok", 0, 0)
    /\ UNCHANGED <<kind, content>>

\* get_mut_data() / get_mut_config() followed by the caller's assignment
SetValue(i, v) ==
    /\ data' = [data EXCEPT ![i] = v]
    /\ Call("set", i, "Ok", 0, 0)
    /\ UNCHANGED <<fs, kind, content>>

CacheFile_get_mut_data(i) ==
    /\ kind[i] = "bin"
    /\ \E v \in MutValues : SetValue(i, v)

CacheConfig_get_mut_config(i) ==
    /\ kind[i] = "json"
    /\ \E v \in MutValues : SetValue(i, v)

\* a read that falls back to the default on undecodable bytes, as new does
ReadOutcome_resets(i, fault) ==
    LET r == FileHandler_read(fs, content[i], fault)
        d == Decode(kind[i], r.bytes)
    IN  IF ~r.ok
        THEN [res |-> "Io", data |-> data[i], content |-> r.content, ret |-> 0]
        ELSE IF d.ok
        THEN [res |-> "Ok", data |-> d.v, content |-> r.content, ret |-> d.v]
        ELSE [res |-> "Decode", data |-> Default, content |-> r.content, ret |-> 0]

\* the outcome of CacheFile::read / CacheConfig::read: [res, data, content, ret]
ReadOutcome(i, fault) ==
    LET r == FileHandler_read(fs, content[i], fault)
        d == Decode(kind[i], r.bytes)
    IN  IF ~r.ok
        THEN [res |-> "Io", data |-> data[i], content |-> r.content, ret |-> 0]
        ELSE IF d.ok
        THEN [res |-> "Ok", data |-> d.v, content |-> r.content, ret |-> d.v]
        ELSE [res |-> "Decode", data |-> data[i], content |-> r.content, ret |-> 0]

Read(i, fault) ==
    LET o == ReadOutcome(i, fault) IN
    /\ data' = [data EXCEPT ![i] = o.data]
    /\ content' = [content EXCEPT ![i] = o.content]
    /\ Call("read", i, o.res, 0, o.ret)
    /\ UNCHANGED <<fs, kind>>

CacheFile_read(i) ==
    /\ kind[i] = "bin"
    /\ \E fault \in BOOLEAN : Read(i, fault)

CacheConfig_read(i) ==
    /\ kind[i] = "json"
    /\ \E fault \in BOOLEAN : Read(i, fault)

\* a write that opens (and so truncates) the file before it serializes
WriteOutcome_opens_first(k, v, f, createFail, n) ==
    LET e == Encode(k, v)
        w == FileHandler_write(f, e.v, createFail, n)
    IN  IF ~e.ok
        THEN [res |-> "Encode", file |-> IF createFail THEN f ELSE File(<<>>)]
        ELSE IF w.ok THEN [res |-> "Ok", file |-> w.file]
        ELSE [res |-> "Io", file |-> w.file]

\* the outcome of CacheFile::write / CacheConfig::write of value v on file
\* f: [res, file]
WriteOutcome(k, v, f, createFail, n) ==
    LET e == Encode(k, v)
        w == FileHandler_write(f, e.v, createFail, n)
    IN  IF ~e.ok THEN [res |-> "Encode", file |-> f]
        ELSE IF w.ok THEN [res |-> "Ok", file |-> w.file]
        ELSE [res |-> "Io", file |-> w.file]

Write(i, createFail, n) ==
    LET o == WriteOutcome(kind[i], data[i], fs, createFail, n) IN
    /\ fs' = o.file
    /\ Call("write", i, o.res, 0, 0)
    /\ UNCHANGED <<kind, data, content>>

CacheFile_write(i) ==
    /\ kind[i] = "bin"
    /\ \E x \in WriteFaults(EncodedBytes(kind[i], data[i])) :
          Write(i, x.createFail, x.n)

CacheConfig_write(i) ==
    /\ kind[i] = "json"
    /\ \E x \in WriteFaults(EncodedBytes(kind[i], data[i])) :
          Write(i, x.createFail, x.n)

\* an append that falls back to the default when its read fails
AppendOutcome_defaults(i, v, fault, createFail, n) ==
    LET r == ReadOutcome(i, fault)
        p == parse(to_string(r.ret) \o to_string(v))
        w == WriteOutcome(kind[i], p.v, fs, createFail, n)
    IN  IF r.res # "Ok"
        THEN [res |-> r.res, data |-> Default, content |-> r.content, file |-> fs]
        ELSE IF ~p.ok
        THEN [res |-> "Parse", data |-> r.data, content |-> r.content, file |-> fs]
        ELSE [res |-> w.res, data |-> p.v, content |-> r.content, file |-> w.file]

\* an append that concatenates to the in-memory value held before the call
AppendOutcome_from_memory(i, v, fault, createFail, n) ==
    LET r == ReadOutcome(i, fault)
        p == parse(to_string(data[i]) \o to_string(v))
        w == WriteOutcome(kind[i], p.v, fs, createFail, n)
    IN  IF r.res # "Ok"
        THEN [res |-> r.res, data |-> r.data, content |-> r.content, file |-> fs]
        ELSE IF ~p.ok
        THEN [res |-> "Parse", data |-> r.data, content |-> r.content, file |-> fs]
        ELSE [res |-> w.res, data |-> p.v, content |-> r.content, file |-> w.file]

\* an append that takes a missing file for the default value and writes
AppendOutcome_creates(i, v, fault, createFail, n) ==
    LET r == ReadOutcome(i, fault)
        p == parse(to_string(r.ret) \o to_string(v))
        w == WriteOutcome(kind[i], p.v, fs, createFail, n)
    IN  IF r.res = "Decode"
        THEN [res |-> r.res, data |-> r.data, content |-> r.content, file |-> fs]
        ELSE IF ~p.ok
        THEN [res |-> "Parse", data |-> r.data, content |-> r.content, file |-> fs]
        ELSE [res |-> w.res, data |-> p.v, content |-> r.content, file |-> w.file]

\* the outcome of CacheFile::append of value v: [res, data, content, file].
\* self.read()? returns early on a failed read; otherwise the value read is
\* already the in-memory value when the concatenated text is parsed, and
\* the parsed value is the in-memory value when write() is called.
AppendOutcome(i, v, fault, createFail, n) ==
    LET r == ReadOutcome(i, fault)
        p == parse(to_string(r.ret) \o to_string(v))
        w == WriteOutcome(kind[i], p.v, fs, createFail, n)
    IN  IF r.res # "Ok"
        THEN [res |-> r.res, data |-> r.data, content |-> r.content, file |-> fs]
        ELSE IF ~p.ok
        THEN [res |-> "Parse", data |-> r.data, content |-> r.content, file |-> fs]
        ELSE [res |-> w.res, data |-> p.v, content |-> r.content, file |-> w.file]

\* the ways the write inside append(v) may go, when it is reached
AppendFaults(i, v, fault) ==
    LET r == ReadOutcome(i, fault)
        p == parse(to_string(r.ret) \o to_string(v))
    IN  IF r.res = "Ok" /\ p.ok
        THEN WriteFaults(EncodedBytes(kind[i], p.v))
        ELSE {[createFail |-> FALSE, n |-> 0]}

AppendCall(i, v, fault, createFail, n) ==
    LET o == AppendOutcome(i, v, fault, createFail, n) IN
    /\ data' = [data EXCEPT ![i] = o.data]
    /\ content' = [content EXCEPT ![i] = o.content]
    /\ fs' = o.file
    /\ Call("append", i, o.res, v, 0)
    /\ UNCHANGED kind

CacheFile_append(i) ==
    /\ kind[i] = "bin"
    /\ \E v \in AppendValues, fault \in BOOLEAN :
       \E x \in AppendFaults(i, v, fault) :
          AppendCall(i, v, fault, x.createFail, x.n)

\* a delete that also forgets the in-memory value
Delete_resets(i, fault) ==
    LET o == FileHandler_delete(fs, fault) IN
    /\ fs' = o.file
    /\ data' = [data EXCEPT ![i] = IF o.ok THEN Default ELSE data[i]]
    /\ Call("delete", i, IF o.ok THEN "Ok" ELSE "Io", 0, 0)
    /\ UNCHANGED <<kind, content>>

Delete(i, fault) ==
    LET o == FileHandler_delete(fs, fault) IN
    /\ fs' = o.file
    /\ Call("delete", i, IF o.ok THEN "Ok" ELSE "Io", 0, 0)
    /\ UNCHANGED <<kind, data, content>>

CacheFile_delete(i) ==
    /\ kind[i] = "bin"
    /\ \E fault \in BOOLEAN : Delete(i, fault)

CacheConfig_delete(i) ==
    /\ kind[i] = "json"
    /\ \E fault \in BOOLEAN : Delete(i, fault)

\* exists(): the answer is kept in ev.res
Exists(i) ==
    /\ Call("exists", i, IF FileHandler_exists(fs) THEN "true" ELSE "false", 0, 0)
    /\ UNCHANGED <<fs, kind, data, content>>

CacheFile_exists(i) == kind[i] = "bin" /\ Exists(i)
CacheConfig_exists(i) == kind[i] = "json" /\ Exists(i)

(* ------------------------------------------------------------------ *)
(* The environment                                                     *)
(* ------------------------------------------------------------------ *)

\* another process removes the file
ExternalDelete ==
    /\ fs.exists
    /\ fs' = NoFile
    /\ Call("ext_delete", 0, "Ok", 0, 0)
    /\ UNCHANGED <<kind, data, content>>

\* another process leaves other bytes in the file
ExternalWrite ==
    \E b \in ExternalBytes :
        /\ fs' = File(b)
        /\ Call("ext_write", 0, "Ok", 0, 0)
        /\ UNCHANGED <<kind, data, content>>

(* ------------------------------------------------------------------ *)
(* The specification                                                   *)
(* ------------------------------------------------------------------ *)

\* both caches constructed against a path where no file exists
Init ==
    /\ fs = NoFile
    /\ dest = NoFile
    /\ kind \in [Insts -> {"bin", "json"}]
    /\ data = [i \in Insts |-> Default]
    /\ content = [i \in Insts |-> FileHandler_new]
    /\ calls = 0
    /\ ev = [op |-> "init", i |-> 0, res |-> "Ok", arg |-> 0, ret |-> 0,
             pre |-> Default]

Next ==
    \/ \E i \in Insts : CacheFile_new(i)
    \/ \E i \in Insts : CacheFile_get_mut_data(i)
    \/ \E i \in Insts : CacheFile_read(i)
    \/ \E i \in Insts : CacheFile_write(i)
    \/ \E i \in Insts : CacheFile_append(i)
    \/ \E i \in Insts : CacheFile_delete(i)
    \/ \E i \in Insts : CacheFile_exists(i)
    \/ \E i \in Insts : CacheConfig_new(i)
    \/ \E i \in Insts : CacheConfig_get_mut_config(i)
    \/ \E i \in Insts : CacheConfig_read(i)
    \/ \E i \in Insts : CacheConfig_write(i)
    \/ \E i \in Insts : CacheConfig_delete(i)
    \/ \E i \in Insts : CacheConfig_exists(i)
    \/ ExternalDelete
    \/ ExternalWrite

Spec == Init /\ [][Next]_vars

\* the caller stores the value that serialize rejects
StoreRejected(i) == SetValue(i, Rejected)

\* the calls available for every T (append needs a T with a text form)
NextT ==
    \/ \E i \in Insts : CacheFile_new(i)
    \/ \E i \in Insts : CacheFile_get_mut_data(i)
    \/ \E i \in Insts : StoreRejected(i)
    \/ \E i \in Insts : CacheFile_read(i)
    \/ \E i \in Insts : CacheFile_write(i)
    \/ \E i \in Insts : CacheFile_delete(i)
    \/ \E i \in Insts : CacheFile_exists(i)
    \/ \E i \in Insts : CacheConfig_new(i)
    \/ \E i \in Insts : CacheConfig_get_mut_config(i)
    \/ \E i \in Insts : CacheConfig_read(i)
    \/ \E i \in Insts : CacheConfig_write(i)
    \/ \E i \in Insts : CacheConfig_delete(i)
    \/ \E i \in Insts : CacheConfig_exists(i)
    \/ ExternalDelete
    \/ ExternalWrite

\* the caches over a T with a value that cannot be serialized
SpecT == Init /\ [][NextT]_vars

(* ------------------------------------------------------------------ *)
(* The FileHandler used directly (SpecFH)                              *)
(* ------------------------------------------------------------------ *)

\* the bytes a caller passes to FileHandler::write and FileHandler::append
CallerBytes == { <<1>>, <<2, 3>> }

IoResult(ok) == IF ok THEN "Ok" ELSE "Io"

\* the counts of bytes after which a write of bytes may stop
Stops(bytes) == 0..Len(bytes)

FH_read(h) ==
    \E fault \in BOOLEAN :
        LET r == FileHandler_read(fs, content[h], fault) IN
        /\ content' = [content EXCEPT ![h] = r.content]
        /\ Call("fh_read", h, IoResult(r.ok), <<>>, r.bytes)
        /\ UNCHANGED <<fs, kind, data>>

FH_write(h) ==
    \E b \in CallerBytes : \E x \in WriteFaults(b) :
        LET w == FileHandler_write(fs, b, x.createFail, x.n) IN
        /\ fs' = w.file
        /\ Call("fh_write", h, IoResult(w.ok), b, <<>>)
        /\ UNCHANGED <<kind, data, content>>

FH_append(h) ==
    \E b \in CallerBytes, openFail \in BOOLEAN : \E k \in Stops(b) :
        LET a == FileHandler_append(fs, b, openFail, k) IN
        /\ fs' = a.file
        /\ Call("fh_append", h, IoResult(a.ok), b, <<>>)
        /\ UNCHANGED <<kind, data, content>>

FH_delete(h) ==
    \E fault \in BOOLEAN :
        LET o == FileHandler_delete(fs, fault) IN
        /\ fs' = o.file
        /\ Call("fh_delete", h, IoResult(o.ok), <<>>, <<>>)
        /\ UNCHANGED <<kind, data, content>>

FH_exists(h) ==
    /\ Call("fh_exists", h,
            IF FileHandler_exists(fs) THEN "true" ELSE "false", <<>>, <<>>)
    /\ UNCHANGED <<fs, kind, data, content>>

FH_copy_to(h) ==
    \E fault \in BOOLEAN : \E k \in Stops(fs.bytes) :
        LET c == FileHandler_copy_to(fs, dest, fault, k) IN
        /\ dest' = c.dest
        /\ Record("fh_copy_to", h, IoResult(c.ok), <<>>, <<>>)
        /\ UNCHANGED <<fs, kind, data, content>>

FH_move_to(h) ==
    \E fault \in BOOLEAN :
        LET m == FileHandler_move_to(fs, dest, fault) IN
        /\ fs' = m.file
        /\ dest' = m.dest
        /\ Record("fh_move_to", h, IoResult(m.ok), <<>>, <<>>)
        /\ UNCHANGED <<kind, data, content>>

\* metadata(): the length reported is kept in ev.ret
FH_metadata(h) ==
    \E fault \in BOOLEAN :
        LET m == FileHandler_metadata(fs, fault) IN
        /\ Call("fh_metadata", h, IoResult(m.ok), <<>>, <<m.len>>)
        /\ UNCHANGED <<fs, kind, data, content>>

\* two handlers (one the clone of the other) on a path where no file exists
InitFH ==
    /\ fs = NoFile
    /\ dest = NoFile
    /\ kind = [i \in Insts |-> "bin"]
    /\ data = [i \in Insts |-> Default]
    /\ content = [i \in Insts |-> FileHandler_new]
    /\ calls = 0
    /\ ev = [op |-> "init", i |-> 0, res |-> "Ok", arg |-> <<>>, ret |-> <<>>,
             pre |-> Default]

NextFH ==
    \/ \E h \in Insts : FH_read(h)
    \/ \E h \in Insts : FH_write(h)
    \/ \E h \in Insts : FH_append(h)
    \/ \E h \in Insts : FH_delete(h)
    \/ \E h \in Insts : FH_exists(h)
    \/ \E h \in Insts : FH_copy_to(h)
    \/ \E h \in Insts : FH_move_to(h)
    \/ \E h \in Insts : FH_metadata(h)
    \/ ExternalDelete
    \/ ExternalWrite

SpecFH == InitFH /\ [][NextFH]_vars

(* ------------------------------------------------------------------ *)
(* The claims                                                          *)
(* ------------------------------------------------------------------ *)

Called(e, op) == e.op = op
Succeeded(e, op) == e.op = op /\ e.res = "Ok"

\* C1 (as claimed): round trip.  When write() of instance i has returned
\* Ok and the next call constructs a cache of the same kind on the path and
\* reads the file, the new in-memory value equals the value written.
C1_RoundTrip ==
    [][ ( /\ Succeeded(ev, "write")
          /\ Called(ev', "new")
          /\ kind'[ev'.i] = kind[ev.i]
          /\ content'[ev'.i].some )
        => data'[ev'.i] = data[ev.i] ]_vars

\* C2 (as claimed): write then read on one instance.  When write() of
\* instance i has returned Ok and the next call is read() of i, which meets
\* no I/O failure, it returns Ok(v) for the in-memory value v and leaves it.
C2_WriteThenRead ==
    [][ ( /\ Succeeded(ev, "write")
          /\ Called(ev', "read")
          /\ ev'.i = ev.i
          /\ ev'.res # "Io" )
        => ( /\ ev'.res = "Ok"
             /\ ev'.ret = data[ev.i]
             /\ data'[ev.i] = data[ev.i] ) ]_vars

\* C3: default on missing.  A construction against a path where no file
\* exists returns (it never fails) an instance holding the default, and the
\* file still does not exist.
C3_DefaultOnMissing ==
    [][ (Called(ev', "new") /\ ~fs.exists)
        => ( /\ ev'.res = "Ok"
             /\ data'[ev'.i] = Default
             /\ ~fs'.exists ) ]_vars

\* C3's case: a cache was just constructed on the missing path while the
\* other instance holds a value that is not the default
C3_Witness ==
    /\ Called(ev, "new")
    /\ ~fs.exists
    /\ \E j \in Insts : j # ev.i /\ data[j] # Default

\* C4: default on corrupt.  A construction against a file whose bytes do
\* not decode returns an instance holding the default and leaves the file
\* as it was.
C4_DefaultOnCorrupt ==
    [][ (Called(ev', "new") /\ fs.exists /\ ~Decode(kind'[ev'.i], fs.bytes).ok)
        => ( /\ ev'.res = "Ok"
             /\ data'[ev'.i] = Default
             /\ fs' = fs ) ]_vars

\* C4's case: a cache was just constructed from bytes it read and could
\* not decode
C4_Witness ==
    /\ Called(ev, "new")
    /\ fs.exists
    /\ fs.bytes # <<>>
    /\ content[ev.i] = Some(fs.bytes)
    /\ ~Decode(kind[ev.i], fs.bytes).ok

\* C5: a read() that returns an error, I/O or decode, leaves every
\* in-memory value as it was.
C5_ReadPreservesOnFailure ==
    [][ (Called(ev', "read") /\ ev'.res # "Ok") => data' = data ]_vars

\* C5's case: a read() just failed to decode the file while the instance
\* holds a value that is not the default
C5_Witness ==
    /\ Called(ev, "read")
    /\ ev.res = "Decode"
    /\ data[ev.i] # Default

\* C6 (as claimed): an append() that returns an error leaves every
\* in-memory value as it was.
C6_AppendPreservesOnFailure ==
    [][ (Called(ev', "append") /\ ev'.res # "Ok") => data' = data ]_vars

\* C7 (as claimed): two instances on one path.  No call of one instance
\* changes the in-memory value of the other, and when a successful write()
\* of one instance follows a successful write() of the other, the file
\* decodes to the in-memory value of the instance that wrote last.
C7_LastWriteWins ==
    [][ /\ \A j \in Insts : ev'.i # j => data'[j] = data[j]
        /\ ( /\ Succeeded(ev, "write")
             /\ Succeeded(ev', "write")
             /\ ev'.i # ev.i )
           => ( /\ fs'.exists
                /\ Decode(kind'[ev'.i], fs'.bytes) = Ok(data'[ev'.i]) ) ]_vars

\* C8: delete then exists.  An exists() of any instance right after a
\* successful delete() answers false, and right after a successful write()
\* it answers true.
C8_DeleteThenExists ==
    [][ Called(ev', "exists")
        => ( /\ Succeeded(ev, "delete") => ev'.res = "false"
             /\ Succeeded(ev, "write") => ev'.res = "true" ) ]_vars

\* C8's case: a delete() of one instance has just removed a file that the
\* other instance had read, and calls of exists() can follow
C8_Witness ==
    /\ Succeeded(ev, "delete")
    /\ \E j \in Insts : j # ev.i /\ content[j].some
    /\ calls < MaxCalls

\* C9 (as claimed): idempotent write.  After a successful write() the file
\* holds exactly the encoding of the in-memory value, and a second
\* successful write() of the same instance right after it leaves the file
\* byte for byte as the first did.
C9_IdempotentWrite ==
    [][ Succeeded(ev', "write")
        => ( /\ fs' = File(Encode(kind[ev'.i], data[ev'.i]).v)
             /\ (Succeeded(ev, "write") /\ ev.i = ev'.i) => fs' = fs ) ]_vars

\* C10: mutation does not persist by itself.  An assignment through
\* get_mut_data() / get_mut_config() leaves the file as it was, and the
\* file comes to hold other bytes only in a write() or an append() (or by
\* another process).
C10_NoAutoPersist ==
    [][ /\ Called(ev', "set") => fs' = fs
        /\ (fs'.exists /\ fs' # fs)
           => ev'.op \in {"write", "append", "ext_write"} ]_vars

\* C10's case: the in-memory value was just changed and differs from what
\* the file decodes to
C10_Witness ==
    /\ Called(ev, "set")
    /\ fs.exists
    /\ Decode(kind[ev.i], fs.bytes).ok
    /\ Decode(kind[ev.i], fs.bytes).v # data[ev.i]

\* C11: delete() leaves the in-memory value untouched.  Whether delete()
\* succeeds or fails, every in-memory value is as before; a successful
\* delete() removes the file and a failed one leaves it as it was.
C11_DeleteKeepsValue ==
    [][ Called(ev', "delete")
        => ( /\ data' = data
             /\ fs' = IF ev'.res = "Ok" THEN NoFile ELSE fs ) ]_vars

\* C11's case: a delete() has just removed the file of an instance that
\* holds a value other than the default
C11_Witness ==
    /\ Succeeded(ev, "delete")
    /\ ~fs.exists
    /\ ev.pre # Default
    /\ data[ev.i] = ev.pre

\* C12: a failed write() changes no in-memory value, and when serialize
\* failed the file is exactly as before (same existence, same bytes).
C12_FailedWrite ==
    [][ (Called(ev', "write") /\ ev'.res # "Ok")
        => ( /\ data' = data
             /\ ev'.res = "Encode" => fs' = fs ) ]_vars

\* C12's case: a write() has just failed to serialize the value while the
\* file holds bytes
C12_Witness ==
    /\ Called(ev, "write")
    /\ ev.res = "Encode"
    /\ data[ev.i] = Rejected
    /\ fs.exists
    /\ fs.bytes # <<>>

\* C13 (as claimed): FileHandler::write(bytes) writes all bytes and flushes
\* before it reports success.  Whenever it returns Ok the file holds
\* exactly the bytes given.
C13_WriteAllAndFlush ==
    [][ Succeeded(ev', "fh_write") => fs' = File(ev'.arg) ]_vars

\* C14 (as claimed): a successful CacheFile::append(v) makes the in-memory
\* value parse(to_string(current) ++ to_string(v)), current being the value
\* the file decoded to, and the file then decodes to that value.
C14_AppendConcatenates ==
    [][ Succeeded(ev', "append")
        => ( /\ data'[ev'.i]
                  = parse(to_string(Decode(kind[ev'.i], fs.bytes).v)
                          \o to_string(ev'.arg)).v
             /\ fs'.exists
             /\ Decode(kind[ev'.i], fs'.bytes) = Ok(data'[ev'.i]) ) ]_vars

\* C15: the content field of a FileHandler.  A successful read() returns
\* the bytes of the file and leaves them in the content field of the handler
\* that read; a failed read(), every other call of the handler, and every
\* call of another handler leave the field as it was.  As the field is None
\* at construction, it is always None or the bytes of the handler's most
\* recent successful read().
C15_ContentIsLastRead ==
    [][ IF Succeeded(ev', "fh_read")
        THEN /\ ev'.ret = fs.bytes
             /\ content' = [content EXCEPT ![ev'.i] = Some(ev'.ret)]
        ELSE content' = content ]_vars

\* C15's case: a read() has just failed on a handler whose content field
\* holds the bytes of an earlier read(), which the file no longer holds
C15_Witness ==
    /\ Called(ev, "fh_read")
    /\ ev.res = "Io"
    /\ content[ev.i].some
    /\ fs.exists
    /\ content[ev.i].bytes # fs.bytes

\* C16: FileHandler::append(bytes) never creates the file.  On a missing
\* file it returns an I/O error and the file is still missing; when it
\* succeeds the file existed and holds the old contents followed by bytes;
\* when it fails on an existing file the old contents are still a prefix of
\* the file.
C16_AppendNeverCreates ==
    [][ Called(ev', "fh_append")
        => ( /\ ~fs.exists => (ev'.res = "Io" /\ fs' = NoFile)
             /\ ev'.res = "Ok"
                  => (fs.exists /\ fs' = File(fs.bytes \o ev'.arg))
             /\ fs.exists
                  => ( /\ fs'.exists
                       /\ Len(fs'.bytes) >= Len(fs.bytes)
                       /\ SubSeq(fs'.bytes, 1, Len(fs.bytes)) = fs.bytes ) )
      ]_vars

\* C16's case: an append() has just failed on a path where no file exists
\* and no file exists afterwards
C16_Witness ==
    /\ Called(ev, "fh_append")
    /\ ev.res = "Io"
    /\ ~fs.exists

\* the value CacheFile::append(v) computes from a file holding bytes:
\* the parse of the decoded value's text followed by v's text
AppendedValue(bytes, v) ==
    parse(to_string(Decode("bin", bytes).v) \o to_string(v))

IsPrefix(s, t) == Len(s) <= Len(t) /\ SubSeq(t, 1, Len(s)) = s

\* C17: the default value is used at the construction-time fallback only.
\* After read, write, append, delete and exists, on success or on failure,
\* every in-memory value is the value held before, or, for the instance
\* called, the value decoded from the file or the value append() parsed
\* from it; no call puts the default in place of a value.
C17_DefaultOnlyAtConstruction ==
    [][ ev'.op \in {"read", "write", "append", "delete", "exists"}
        => \A j \in Insts :
              \/ data'[j] = data[j]
              \/ /\ j = ev'.i
                 /\ ev'.op \in {"read", "append"}
                 /\ fs.exists
                 /\ Decode(kind[j], fs.bytes).ok
                 /\ \/ data'[j] = Decode(kind[j], fs.bytes).v
                    \/ /\ ev'.op = "append"
                       /\ AppendedValue(fs.bytes, ev'.arg).ok
                       /\ data'[j] = AppendedValue(fs.bytes, ev'.arg).v ]_vars

\* C17's case: an append() has just failed to decode the file on an
\* instance that holds, before and after, a value other than the default
C17_Witness ==
    /\ Called(ev, "append")
    /\ ev.res = "Decode"
    /\ ev.pre # Default
    /\ data[ev.i] = ev.pre

\* C18 (as claimed): the outcome of append(v) and the resulting in-memory
\* value depend only on the file's bytes and v.  Two instances that call
\* append(v) one after the other, with the same v and on the same bytes
\* (the first call failed to decode them, so it left them), end with the
\* same in-memory value.
C18_DependsOnFileOnly ==
    [][ ( /\ Called(ev, "append") /\ ev.res = "Decode"
          /\ Called(ev', "append") /\ ev'.res = "Decode"
          /\ ev'.i # ev.i
          /\ ev'.arg = ev.arg )
        => data'[ev'.i] = data[ev.i] ]_vars

\* C18 (amended): append(v) computes from the value decoded from the file
\* at call time.  When it returns Ok, or fails to parse the concatenated
\* text, the in-memory value is a function of the file's bytes and v,
\* whatever value was held before; after Ok the file holds the encoding of
\* that value or a prefix of it.  When it fails to decode the file, the
\* value held before and the file are kept.  When it fails with an I/O
\* error, either both are kept (the read failed) or the value is the one
\* computed from the file (the write failed).
C18_AppendFromFile ==
    [][ Called(ev', "append")
        => LET i == ev'.i
               d == Decode("bin", fs.bytes)
               p == AppendedValue(fs.bytes, ev'.arg)
           IN  /\ ev'.res \in {"Ok", "Parse", "Decode", "Io"}
               /\ ev'.res = "Ok"
                    => ( /\ fs.exists /\ d.ok /\ p.ok
                         /\ data'[i] = p.v
                         /\ fs'.exists
                         /\ IsPrefix(fs'.bytes, bincode_serialize(p.v).v) )
               /\ ev'.res = "Parse"
                    => ( /\ fs.exists /\ d.ok /\ ~p.ok
                         /\ data'[i] = d.v
                         /\ fs' = fs )
               /\ ev'.res = "Decode"
                    => ( /\ fs.exists /\ ~d.ok
                         /\ data'[i] = data[i]
                         /\ fs' = fs )
               /\ ev'.res = "Io"
                    => \/ data'[i] = data[i] /\ fs' = fs
                       \/ fs.exists /\ d.ok /\ p.ok /\ data'[i] = p.v ]_vars

\* C18's case: an append() has just succeeded on an instance that held a
\* value other than the default, and the value it left is not the one the
\* value held before would have given
C18_Witness ==
    /\ Succeeded(ev, "append")
    /\ ev.pre # Default
    /\ data[ev.i] # ev.pre
    /\ data[ev.i] # parse(to_string(ev.pre) \o to_string(ev.arg)).v

\* C19: append(v) on a missing file returns the read's I/O error, creates
\* no file and changes no in-memory value; append(v) returns Ok only when
\* the file existed and decoded at the call.
C19_AppendNeedsFile ==
    [][ Called(ev', "append")
        => ( /\ ~fs.exists
                  => (ev'.res = "Io" /\ fs' = NoFile /\ data' = data)
             /\ ev'.res = "Ok"
                  => (fs.exists /\ Decode("bin", fs.bytes).ok) ) ]_vars

\* C19's case: an append() has just failed with an I/O error on an
\* instance that holds the default, no file exists and none was read
C19_Witness ==
    /\ Called(ev, "append")
    /\ ev.res = "Io"
    /\ ~fs.exists
    /\ data[ev.i] = Default
    /\ ~content[ev.i].some

\* C20: a handler keeps its path.  A successful move_to(dest) leaves the
\* bytes at dest and no file at the handler's path; while no file is there,
\* exists() is false and read(), append(), delete(), metadata(), copy_to()
\* and move_to() fail and change nothing, and only a write (the handler's
\* or another process's) puts a file there again.  A successful
\* copy_to(dest) leaves the bytes at dest and the original as it was.
C20_PathNeverChanges ==
    [][ /\ Succeeded(ev', "fh_move_to")
             => (fs.exists /\ fs' = NoFile /\ dest' = File(fs.bytes))
        /\ ( /\ ~fs.exists
             /\ ev'.op \in {"fh_read", "fh_append", "fh_delete",
                            "fh_metadata", "fh_copy_to", "fh_move_to"} )
             => (ev'.res = "Io" /\ fs' = NoFile /\ dest' = dest)
        /\ (~fs.exists /\ Called(ev', "fh_exists")) => ev'.res = "false"
        /\ (~fs.exists /\ fs'.exists) => ev'.op \in {"fh_write", "ext_write"}
        /\ Called(ev', "fh_copy_to") => fs' = fs
        /\ Succeeded(ev', "fh_copy_to")
             => (fs.exists /\ dest' = File(fs.bytes)) ]_vars

\* C20's case: a move_to() has just succeeded; the bytes are at dest, no
\* file is at the handler's path, and further calls can follow
C20_Witness ==
    /\ Succeeded(ev, "fh_move_to")
    /\ ~fs.exists
    /\ dest.exists
    /\ dest.bytes # <<>>
    /\ calls < MaxCalls

====
